---- MODULE Spec2Model ----
(***************************************************************************)
(* Model of R6-Map-Spider (src/main.py): the flattening extractor          *)
(* extract_zip_flat, the archive builder zip_folder, the fingerprint       *)
(* calculate_file_hash, one collection pass run_crawl and the two-pass     *)
(* controller main.                                                        *)
(*                                                                         *)
(* Strings are sequences of tokens.  A token is a chunk of characters; no  *)
(* token is a prefix of another, so comparing two strings character by     *)
(* character is comparing their token sequences by the first character of  *)
(* each token (Ord), and the junk name is a substring of a string exactly  *)
(* when it is one of its tokens.  A path is a sequence of names.           *)
(***************************************************************************)
EXTENDS Integers, Sequences, FiniteSets, TLC

VARIABLES
    \* ---- zip_folder on its own (SpecPack)
    tree,        \* the directory handed to zip_folder: relative path -> data
    zipA, zipB,  \* the results of two calls on that directory
    \* ---- extract_zip_flat on its own (SpecExtract)
    xzip,        \* the archive handed to extract_zip_flat: its infolist
    xfs0,        \* the filesystem before the call
    xfs,         \* the filesystem now
    xres,        \* its return value, "none" before the call
    \* ---- main and run_crawl (Spec)
    pc,          \* where main is: cleanup, setup, catalog, item, pack, hash,
                 \* returned (run_crawl has returned to main), exit
    zip_suffix,  \* run_crawl's argument: "_first" or "_second"
    cwd,         \* the working directory: ./maps and what is below it
    zips,        \* ./r6maps<suffix>.zip for suffix "", "_first", "_second"
    hashes,      \* ./hash<suffix>.txt for the same suffixes
    maps_data,   \* run_crawl: the catalog
    idx,         \* run_crawl: the position of the for loop in maps_data
    map_status,  \* run_crawl: the report, a dict in insertion order
    has_error,   \* run_crawl
    total_maps,  \* run_crawl
    zip_result,  \* run_crawl: "none" until zip_folder has returned
    last_ev,     \* what the site answered for the item handled last
    first,       \* main: what run_crawl("_first") returned
    second,      \* main: what run_crawl("_second") returned
    decision,    \* main: "none", "ACCEPTED" or "REJECTED"
    exitCode,    \* the argument of sys.exit, -1 while main runs
    printed      \* the report each pass printed: total_maps and map_status

packVars == <<tree, zipA, zipB>>
extractVars == <<xzip, xfs0, xfs, xres>>
runVars == <<maps_data, idx, map_status, has_error, total_maps, zip_result, last_ev>>
mainVars == <<pc, zip_suffix, cwd, zips, hashes, runVars, first, second, decision, exitCode,
              printed>>
vars == <<packVars, extractVars, mainVars>>

\* ------------------------------------------------------------------ bounds
MaxFiles == 2     \* files in the directory handed to zip_folder
MaxData == 2      \* distinct file contents
MaxMTime == 2     \* distinct modification times
MaxEntries == 2   \* entries of the archive handed to extract_zip_flat
MaxItems == 2     \* items of the catalog in one pass on its own (SpecRun)
MaxMainItems == 1 \* items of the catalog in each pass of main (Spec)

\* ----------------------------------------------------------------- strings
SLASH == "/"
DOT == "."
JUNK == "__MACOSX"

\* The code point of a token's first character.
Ord(t) ==
    CASE t = "." -> 46
      [] t = "/" -> 47
      [] t = "__MACOSX" -> 95
      [] t = "a" -> 97
      [] t = "b" -> 98
      [] t = "maps" -> 109
      [] t = "stale" -> 115
      [] t = "zip" -> 122

\* Python's str comparison s < t: by code point, a proper prefix is smaller.
RECURSIVE StrLess(_, _)
StrLess(s, t) ==
    IF s = <<>> THEN t # <<>>
    ELSE IF t = <<>> THEN FALSE
    ELSE IF Head(s) = Head(t) THEN StrLess(Tail(s), Tail(t))
    ELSE Ord(Head(s)) < Ord(Head(t))

\* sorted(xs) for a list of distinct strings: insertion into a sorted list.
RECURSIVE InsertSorted(_, _)
InsertSorted(x, xs) ==
    IF xs = <<>> THEN <<x>>
    ELSE IF StrLess(x, Head(xs)) THEN <<x>> \o xs
    ELSE <<Head(xs)>> \o InsertSorted(x, Tail(xs))

RECURSIVE Sorted(_)
Sorted(xs) ==
    IF xs = <<>> THEN <<>> ELSE InsertSorted(Head(xs), Sorted(Tail(xs)))

\* os.path.join / os.path.relpath on POSIX: the names of a path joined by "/".
RECURSIVE JoinPath(_)
JoinPath(p) ==
    IF p = <<>> THEN <<>>
    ELSE IF Len(p) = 1 THEN Head(p)
    ELSE Head(p) \o <<SLASH>> \o JoinPath(Tail(p))

\* The sequences that list every element of the finite set S once.
RECURSIVE Perms(_)
Perms(S) ==
    IF S = {} THEN {<<>>}
    ELSE UNION {{<<x>> \o p : p \in Perms(S \ {x})} : x \in S}

\* A local variable: F applied to the value of v, with v evaluated once.
Bind(v, F(_)) == CHOOSE y \in {F(x) : x \in {v}} : TRUE

IsPrefix(p, q) == Len(p) <= Len(q) /\ SubSeq(q, 1, Len(p)) = p

\* ------------------------------------------------------------------- files
\* What a path of the filesystem holds: nothing, or a file with this content.
NoFile == <<>>
FileOf(x) == <<x>>
ContentOf(f) == f[1]

\* ------------------------------------------------------------- zip_folder
\* zip_info.date_time = (2015, 11, 28, 0, 0, 0)
FixedDateTime == <<2015, 11, 28, 0, 0, 0>>

\* The names os.scandir finds in directory dir of the tree.
ChildNames(files, dir) ==
    {p[Len(dir) + 1] : p \in {q \in DOMAIN files : IsPrefix(dir, q) /\ Len(q) > Len(dir)}}

IsFileIn(files, dir, n) == (dir \o <<n>>) \in DOMAIN files

IsDirIn(files, dir, n) ==
    \E q \in DOMAIN files : IsPrefix(dir \o <<n>>, q) /\ Len(q) > Len(dir) + 1

\* The directories os.walk can visit: the root and every proper prefix of a file.
DirsOf(files) ==
    UNION {{SubSeq(q, 1, k) : k \in 0..(Len(q) - 1)} : q \in DOMAIN files} \cup {<<>>}

\* Every order in which the filesystem may list each directory.
RECURSIVE ScansOf(_, _)
ScansOf(files, ds) ==
    IF ds = {} THEN {<<>>}
    ELSE LET d == CHOOSE x \in ds : TRUE
         IN  {(d :> p) @@ s : p \in Perms(ChildNames(files, d)), s \in ScansOf(files, ds \ {d})}

Scans(files) == ScansOf(files, DirsOf(files))

\* zipfile.ZipInfo(arcname) with the fixed date_time, and the bytes read from disk.
ZipEntry(files, mtime, path) ==
    [filename |-> JoinPath(path), data |-> files[path], date_time |-> FixedDateTime]

\* dirs.remove('__MACOSX'): os.walk then does not descend into it.
RemoveJunk(dirs) == SelectSeq(dirs, LAMBDA d : d # <<JUNK>>)

\* for root, dirs, files in os.walk(folder_path): for file in sorted(files): ...
\* os.walk is top-down: the files of a directory, then its subdirectories in
\* the order the filesystem listed them.
RECURSIVE Walk(_, _, _, _)
RECURSIVE WalkDirs(_, _, _, _, _)
Walk(files, scan, mtime, dir) ==
    LET listing == scan[dir]
        dirs == RemoveJunk(SelectSeq(listing, LAMBDA n : IsDirIn(files, dir, n)))
        names == Sorted(SelectSeq(listing, LAMBDA n : IsFileIn(files, dir, n)))
    IN  [i \in 1..Len(names) |-> ZipEntry(files, mtime, dir \o <<names[i]>>)]
        \o WalkDirs(files, scan, mtime, dir, dirs)

WalkDirs(files, scan, mtime, dir, dirs) ==
    IF dirs = <<>> THEN <<>>
    ELSE Walk(files, scan, mtime, dir \o <<Head(dirs)>>)
         \o WalkDirs(files, scan, mtime, dir, Tail(dirs))

\* zip_folder(folder_path, zip_path): files is the tree under folder_path,
\* old what zip_path holds before the call.  failAt = -1: ZipFile(zip_path, 'w')
\* raises, nothing is written; failAt = k > 0: reading the k-th file raises, the
\* with-statement closes the archive with the k-1 entries written so far;
\* failAt = 0: no exception.  Returns its bool and what zip_path holds after.
ZipWrite(entries, failAt, old) ==
    IF failAt = -1 THEN [ok |-> FALSE, zip |-> old]
    ELSE IF failAt >= 1 /\ failAt <= Len(entries)
         THEN [ok |-> FALSE, zip |-> FileOf(SubSeq(entries, 1, failAt - 1))]
    ELSE [ok |-> TRUE, zip |-> FileOf(entries)]

ZipFolder(files, scan, mtime, failAt, old) ==
    ZipWrite(Walk(files, scan, mtime, <<>>), failAt, old)

\* ------------------------------------------------ zip_folder on its own
PackNames == {<<"a">>, <<"b">>, <<JUNK>>}
PackPaths == {<<n>> : n \in PackNames} \cup {<<d, n>> : d, n \in PackNames}

\* No path of the tree is both a file and a directory.
Consistent(S) == \A p, q \in S : IsPrefix(p, q) => p = q

Trees ==
    UNION {[S -> 1..MaxData] :
             S \in {T \in SUBSET PackPaths : Cardinality(T) <= MaxFiles /\ Consistent(T)}}

NotRun == [ran |-> FALSE, ok |-> FALSE, zip |-> NoFile]
Ran(r) == [ran |-> TRUE, ok |-> r.ok, zip |-> r.zip]

PackIdle ==
    /\ tree = <<>>
    /\ zipA = NotRun
    /\ zipB = NotRun

PackInit ==
    /\ tree \in Trees
    /\ zipA = NotRun
    /\ zipB = NotRun

\* The first call of zip_folder on the directory.
PackA ==
    /\ ~zipA.ran
    /\ \E scan \in Scans(tree), t \in 1..MaxMTime, failAt \in -1..Cardinality(DOMAIN tree) :
         zipA' = Ran(ZipFolder(tree, scan, [p \in DOMAIN tree |-> t], failAt, NoFile))
    /\ UNCHANGED <<tree, zipB, extractVars, mainVars>>

\* A second call on the same content: the filesystem may list it in another
\* order and the files may have been written at another time.
PackB ==
    /\ zipA.ran
    /\ ~zipB.ran
    /\ \E scan \in Scans(tree), t \in 1..MaxMTime, failAt \in -1..Cardinality(DOMAIN tree) :
         zipB' = Ran(ZipFolder(tree, scan, [p \in DOMAIN tree |-> t], failAt, NoFile))
    /\ UNCHANGED <<tree, zipA, extractVars, mainVars>>

PackNext == PackA \/ PackB

\* -------------------------------------------------------------- os.path
\* p.rfind('/') + 1
RECURSIVE AfterLastSlash(_)
AfterLastSlash(s) ==
    IF s = <<>> THEN 0
    ELSE IF s[Len(s)] = SLASH THEN Len(s)
    ELSE AfterLastSlash(SubSeq(s, 1, Len(s) - 1))

\* posixpath.basename(p): i = p.rfind('/') + 1; return p[i:]
Basename(s) == SubSeq(s, AfterLastSlash(s) + 1, Len(s))

\* posixpath.join(a, b): an absolute b discards a.
JoinStr(a, b) ==
    IF b # <<>> /\ Head(b) = SLASH THEN b
    ELSE IF a = <<>> \/ a[Len(a)] = SLASH THEN a \o b
    ELSE a \o <<SLASH>> \o b

\* s.split('/')
RECURSIVE SplitSlash(_, _)
SplitSlash(cur, s) ==
    IF s = <<>> THEN <<cur>>
    ELSE IF Head(s) = SLASH THEN <<cur>> \o SplitSlash(<<>>, Tail(s))
    ELSE SplitSlash(cur \o <<Head(s)>>, Tail(s))

ROOT == <<SLASH>>
UP == <<DOT, DOT>>

\* The file a path string names, as the kernel resolves it from the working
\* directory: "" and "." stay, ".." goes to the parent (the root is its own
\* parent).  A resolved path that starts with ROOT or UP lies outside the
\* working directory.
RECURSIVE ResolveFrom(_, _)
ResolveFrom(acc, comps) ==
    IF comps = <<>> THEN acc
    ELSE LET c == Head(comps)
             next == IF c = <<>> \/ c = <<DOT>> THEN acc
                     ELSE IF c = UP
                          THEN IF acc = <<>> \/ acc[Len(acc)] = UP THEN acc \o <<UP>>
                               ELSE IF acc = <<ROOT>> THEN acc
                               ELSE SubSeq(acc, 1, Len(acc) - 1)
                     ELSE acc \o <<c>>
         IN  ResolveFrom(next, Tail(comps))

Resolve(s) ==
    ResolveFrom(IF s # <<>> /\ Head(s) = SLASH THEN <<ROOT>> ELSE <<>>, SplitSlash(<<>>, s))

\* ------------------------------------------------------------ filesystem
\* fs.files: resolved path -> data; fs.dirs: the directories made below the
\* working directory.  Directories outside the working directory exist.
EmptyFs == [files |-> <<>>, dirs |-> {}]

Outside(p) == p # <<>> /\ Head(p) \in {ROOT, UP}

IsDirectory(fs, p) ==
    \/ p = <<>>
    \/ p \in fs.dirs
    \/ p = <<ROOT>>
    \/ (p # <<>> /\ \A i \in 1..Len(p) : p[i] = UP)

Parent(p) == SubSeq(p, 1, Len(p) - 1)

PutFile(files, p, data) ==
    [q \in (DOMAIN files) \cup {p} |-> IF q = p THEN data ELSE files[q]]

\* open(path, 'wb') and the write of data: IsADirectoryError on a directory,
\* FileNotFoundError / NotADirectoryError when the parent is no directory.
OpenWrite(fs, s, data) ==
    Bind(Resolve(s),
         LAMBDA p :
            IF IsDirectory(fs, p) THEN [ok |-> FALSE, fs |-> fs]
            ELSE IF ~(IsDirectory(fs, Parent(p))
                        \/ (Outside(p) /\ Parent(p) \notin DOMAIN fs.files))
                 THEN [ok |-> FALSE, fs |-> fs]
            ELSE [ok |-> TRUE, fs |-> [fs EXCEPT !.files = PutFile(fs.files, p, data)]])

\* os.makedirs(path, exist_ok=True): FileExistsError / NotADirectoryError when
\* the path or one of its parents is a file.
Makedirs(fs, s) ==
    Bind(Resolve(s),
         LAMBDA p :
            Bind({SubSeq(p, 1, k) : k \in 1..Len(p)},
                 LAMBDA pre :
                    IF pre \cap DOMAIN fs.files # {} THEN [ok |-> FALSE, fs |-> fs]
                    ELSE [ok |-> TRUE,
                          fs |-> [fs EXCEPT !.dirs = fs.dirs \cup {q \in pre : ~Outside(q)}]]))

\* ------------------------------------------------------ extract_zip_flat
\* What a write leaves when the copy stops part way.
Truncated == 0

\* '__MACOSX' in zip_info.filename
HasJunk(s) == \E i \in 1..Len(s) : s[i] = JUNK

\* ZipInfo.is_dir(): the name ends with "/".
IsDirEntry(s) == s # <<>> /\ s[Len(s)] = SLASH

\* ExtractEntry with the destination built from the entry's whole name.
ExtractEntryFullName(fs, target_dir, e) ==
    LET file_name == Basename(e.filename)
        target_file == JoinStr(target_dir, e.filename)
    IN  IF HasJunk(e.filename) \/ IsDirEntry(e.filename) \/ file_name = <<>>
        THEN [ok |-> TRUE, fs |-> fs]
        ELSE IF e.corrupt = "header" THEN [ok |-> FALSE, fs |-> fs]
        ELSE Bind(OpenWrite(fs, target_file, IF e.corrupt = "data" THEN Truncated ELSE e.data),
                  LAMBDA w : IF ~w.ok THEN [ok |-> FALSE, fs |-> fs]
                             ELSE [ok |-> e.corrupt # "data", fs |-> w.fs])

\* One pass of the loop body for archive entry e = [filename, data, corrupt].
\* corrupt = "header": zip_ref.open(zip_info) raises, before the target is
\* opened; corrupt = "data": copyfileobj raises after the target was created.
\* ok = FALSE is an exception, which ends extract_zip_flat.
ExtractEntry(fs, target_dir, e) ==
    LET file_name == Basename(e.filename)
        target_file == JoinStr(target_dir, file_name)
    IN  IF HasJunk(e.filename) \/ IsDirEntry(e.filename) \/ file_name = <<>>
        THEN [ok |-> TRUE, fs |-> fs]
        ELSE IF e.corrupt = "header" THEN [ok |-> FALSE, fs |-> fs]
        ELSE Bind(OpenWrite(fs, target_file, IF e.corrupt = "data" THEN Truncated ELSE e.data),
                  LAMBDA w : IF ~w.ok THEN [ok |-> FALSE, fs |-> fs]
                             ELSE [ok |-> e.corrupt # "data", fs |-> w.fs])

\* for zip_info in zip_ref.infolist(): ... up to the first exception.
RECURSIVE ExtractAll(_, _, _)
ExtractAll(fs, target_dir, entries) ==
    IF entries = <<>> THEN [ok |-> TRUE, fs |-> fs]
    ELSE Bind(ExtractEntry(fs, target_dir, Head(entries)),
              LAMBDA r : IF r.ok THEN ExtractAll(r.fs, target_dir, Tail(entries)) ELSE r)

\* extract_zip_flat(zip_path, target_dir) -> bool, with the filesystem it
\* leaves.  zip = [valid, entries]: zipfile.ZipFile(zip_path) raises BadZipFile
\* on a file that is no archive.
ExtractZipFlat(fs, zip, target_dir) ==
    Bind(Makedirs(fs, target_dir),
         LAMBDA m : IF ~m.ok THEN [ok |-> FALSE, fs |-> fs]
                    ELSE IF ~zip.valid THEN [ok |-> FALSE, fs |-> m.fs]
                    ELSE ExtractAll(m.fs, target_dir, zip.entries))

\* ------------------------------------------- extract_zip_flat on its own
\* target_dir as run_crawl passes it: os.path.join("./maps", map_name).
TargetDir == <<DOT, SLASH, "maps", SLASH, "a">>

\* Entry names: plain, nested, directory entries, parent-directory traversal,
\* absolute, a final component "..", the junk directory as a component
\* and the junk name inside a file name.
ExtractNames ==
    { <<>>,
      <<"a">>, <<"b">>,
      <<"b", SLASH, "a">>,
      <<"a", SLASH>>,
      <<DOT, DOT, SLASH, "a">>,
      <<DOT, DOT, SLASH, DOT, DOT, SLASH, "b">>,
      <<SLASH, "a">>,
      <<"a", SLASH, DOT, DOT>>,
      <<DOT, DOT>>,
      <<JUNK, SLASH, "a">>,
      <<"a", JUNK>> }

XEntries == [filename : ExtractNames, data : 1..MaxData]

XZips == UNION {[1..n -> XEntries] : n \in 0..MaxEntries}

\* Before the call: ./maps exists (run_crawl made it); the target may hold a
\* file of an earlier extraction, and files lie next to it and outside ./maps.
XInitFs ==
    { [files |-> <<>>, dirs |-> {<<<<"maps">>>>}],
      [files |-> (<< <<"maps">>, <<"a">>, <<"a">> >> :> MaxData + 1)
                 @@ (<< <<"maps">>, <<"b">> >> :> MaxData + 1)
                 @@ (<< <<"a">> >> :> MaxData + 1),
       dirs |-> {<<<<"maps">>>>, << <<"maps">>, <<"a">> >>}] }

ExtractIdle ==
    /\ xzip = <<>>
    /\ xfs0 = EmptyFs
    /\ xfs = EmptyFs
    /\ xres = "none"

ExtractInit ==
    /\ xzip \in XZips
    /\ xfs0 \in XInitFs
    /\ xfs = xfs0
    /\ xres = "none"

\* How the file at zip_path may be damaged: it is no zip file at all, or it
\* is one and at most one of its n entries is corrupt.
Damages(n) ==
    {[valid |-> FALSE, bad |-> 0, kind |-> "no"], [valid |-> TRUE, bad |-> 0, kind |-> "no"]}
      \cup [valid : {TRUE}, bad : 1..n, kind : {"header", "data"}]

\* The whole call extract_zip_flat(zip_path, TargetDir).
Extract ==
    /\ xres = "none"
    /\ \E dmg \in Damages(Len(xzip)) :
         LET zip == [valid |-> dmg.valid,
                     entries |-> [i \in 1..Len(xzip) |->
                                    [filename |-> xzip[i].filename,
                                     data |-> xzip[i].data,
                                     corrupt |-> IF i = dmg.bad THEN dmg.kind ELSE "no"]]]
             r == ExtractZipFlat(xfs, zip, TargetDir)
         IN  /\ xfs' = r.fs
             /\ xres' = IF r.ok THEN "true" ELSE "false"
    /\ UNCHANGED <<xzip, xfs0, packVars, mainVars>>

ExtractNext == Extract

\* ------------------------------------------------- calculate_file_hash
None == <<>>

\* hashlib sha256 of the file's bytes: equal digests for equal bytes, and
\* (collision resistance) different digests for different bytes.
CalculateFileHash(file) == <<"sha256", ContentOf(file)>>

\* ------------------------------------------------------ cleanup_resources
Suffixes == {"", "_first", "_second"}

\* download_dir = "./maps"
MapsDir == <<DOT, SLASH, "maps">>

\* shutil.rmtree(path): the directory and everything below it.
Rmtree(f, s) ==
    LET d == Resolve(s)
        keep == {p \in DOMAIN f.files : ~IsPrefix(d, p)}
    IN  [files |-> [p \in keep |-> f.files[p]],
         dirs |-> {q \in f.dirs : ~IsPrefix(d, q)}]

\* CleanupResources removing the first pass's archive and hash file as well.
CleanupResourcesAll(st, keep_first_zip, rmtreeFails, removeFails) ==
    LET f == IF Resolve(MapsDir) \in st.fs.dirs /\ ~rmtreeFails
             THEN Rmtree(st.fs, MapsDir) ELSE st.fs
    IN  [fs |-> f,
         zips |-> [x \in Suffixes |-> IF x = "_second" THEN st.zips[x] ELSE NoFile],
         hashes |-> [x \in Suffixes |-> IF x = "_second" THEN st.hashes[x] ELSE NoFile]]

\* cleanup_resources(keep_first_zip) on the state [fs, zips, hashes].
\* rmtreeFails: shutil.rmtree raises and ./maps stays; removeFails: the files
\* among "zip" (./r6maps.zip) and "hash" (./hash.txt) whose os.remove raises.
\* Both exceptions are caught and printed.
CleanupResources(st, keep_first_zip, rmtreeFails, removeFails) ==
    LET f == IF Resolve(MapsDir) \in st.fs.dirs /\ ~rmtreeFails
             THEN Rmtree(st.fs, MapsDir) ELSE st.fs
        z == IF ~keep_first_zip /\ "zip" \notin removeFails
             THEN [st.zips EXCEPT ![""] = NoFile] ELSE st.zips
        h == IF ~keep_first_zip /\ "hash" \notin removeFails
             THEN [st.hashes EXCEPT ![""] = NoFile] ELSE st.hashes
    IN  [fs |-> f, zips |-> z, hashes |-> h]

\* ---------------------------------------------------------------- run_crawl
\* The report texts, as token strings.
OK_STATUS == <<"OK">>                \* the "normal" status of a map
ZIP_MSG == "MapZip"                  \* the prefix of the message for a non-200 status
LINK_EMPTY == "LinkEmpty"            \* the message of the ValueError for an empty href
LINK_404 == <<"MapLink", "404">>     \* the status recorded for an empty href
EXTRACT_FAILED == <<"ExtractFailed">> \* the message raised when extract_zip_flat is false
GLOBAL_KEY == <<"Global">>           \* the report key of a failure of the whole crawl
PACK_KEY == <<"Pack">>               \* the report key of a failed zip_folder
CRAWL_ERROR == "CrawlError"          \* the prefix of the status under GLOBAL_KEY
PACK_FAILED == "PackFailed"          \* the suffix of the status under PACK_KEY

\* "x" in msg, for a text x that is one token.
Contains(msg, x) == \E i \in 1..Len(msg) : msg[i] = x

\* map_status[key] = value on a dict that keeps insertion order: a key that is
\* already there keeps its place and gets the new value.
DictSet(d, key, value) ==
    IF \E i \in 1..Len(d) : d[i].key = key
    THEN [i \in 1..Len(d) |-> IF d[i].key = key THEN [key |-> key, value |-> value] ELSE d[i]]
    ELSE Append(d, [key |-> key, value |-> value])

\* The except clause of the item loop: the status recorded for an exception
\* with message error_msg.
ItemErrorStatus(error_msg) ==
    IF Contains(error_msg, "404") THEN <<ZIP_MSG, "404">>
    ELSE IF Contains(error_msg, LINK_EMPTY) THEN LINK_404
    ELSE error_msg

\* The catalog: each item has a name and a url field, or lacks one of them.
MapNames == {<<"a">>, <<"b">>}
Items ==
    [name : MapNames, fields : {"name+url"}]
      \cup {[name |-> <<"a">>, fields |-> "name"], [name |-> <<"b">>, fields |-> "url"]}
Catalogs == UNION {[1..n -> Items] : n \in 0..MaxItems}

\* The catalogs offered to the two passes of main.
MainItems == {[name |-> <<"a">>, fields |-> "name+url"], [name |-> <<"b">>, fields |-> "url"]}
MainCatalogs == UNION {[1..n -> MainItems] : n \in 0..MaxMainItems}

\* What the site answers for one item: no download button within the wait
\* (TimeoutException), a button with an empty href, a failing request with a
\* message that holds "404" or does not, a status other than 200, or a body.
Events ==
    {[kind |-> k, code |-> "", body |-> 0] : k \in {"timeout", "nohref", "neterr", "neterr404"}}
      \cup {[kind |-> "status", code |-> c, body |-> 0] : c \in {"404", "500"}}
      \cup {[kind |-> "body", code |-> "200", body |-> b] : b \in {0, 1, 2, 3}}

\* No item was handled yet.
NoEvent == [kind |-> "none", code |-> "", body |-> 0]

\* The answers offered to the two passes of main.
MainEvents ==
    {[kind |-> "timeout", code |-> "", body |-> 0], [kind |-> "status", code |-> "404", body |-> 0]}
      \cup {[kind |-> "body", code |-> "200", body |-> b] : b \in {1, 3}}

\* zipfile.ZipFile(temp_zip_path): the archive a downloaded body decodes to.
\* Body 0 is no zip file; body 3 holds an entry whose data is corrupt.
ParseZip(body) ==
    CASE body = 1 -> [valid |-> TRUE,
                      entries |-> <<[filename |-> <<"a">>, data |-> 1, corrupt |-> "no"]>>]
      [] body = 2 -> [valid |-> TRUE,
                      entries |-> <<[filename |-> <<"a">>, data |-> 2, corrupt |-> "no"]>>]
      [] body = 3 -> [valid |-> TRUE,
                      entries |-> <<[filename |-> <<"a">>, data |-> 1, corrupt |-> "no"],
                                    [filename |-> <<"b">>, data |-> 2, corrupt |-> "data"]>>]
      [] OTHER -> [valid |-> FALSE, entries |-> <<>>]

\* The bytes of a downloaded body as the content of the temporary file.
BodyBytes(body) == 10 + body

\* os.remove(path)
RemoveFile(f, s) ==
    [f EXCEPT !.files = [p \in (DOMAIN f.files) \ {Resolve(s)} |-> f.files[p]]]

\* The tree below directory s, by relative path: what os.walk(s) finds.
Under(f, s) ==
    LET d == Resolve(s)
        below == {p \in DOMAIN f.files : IsPrefix(d, p) /\ Len(p) > Len(d)}
    IN  [q \in {SubSeq(p, Len(d) + 1, Len(p)) : p \in below} |-> f.files[d \o q]]

\* run_crawl, lines 232-234: no pass has printed its report yet.
NothingPrinted == [x \in {"_first", "_second"} |-> [total |-> -1, report |-> <<>>]]

\* What run_crawl returns: (has_error, file_hash, zip_path).
NotReturned == [done |-> FALSE, error |-> FALSE, hash |-> None, zip |-> "None"]
Returned(e, h, z) == [done |-> TRUE, error |-> e, hash |-> h, zip |-> z]

\* --------------------------------------------------------------------- main
\* Files a previous invocation of the program may have left.
StaleEntries ==
    <<[filename |-> <<"stale">>, data |-> MaxData + 1, date_time |-> FixedDateTime]>>
StaleFs ==
    [files |-> (<< <<"maps">>, <<"a">>, <<"stale">> >> :> MaxData + 1),
     dirs |-> {<<<<"maps">>>>, << <<"maps">>, <<"a">> >>}]

RunIdle ==
    /\ maps_data = <<>>
    /\ idx = 1
    /\ map_status = <<>>
    /\ has_error = FALSE
    /\ total_maps = 0
    /\ zip_result = "none"
    /\ last_ev = NoEvent

MainIdle ==
    /\ pc = "exit"
    /\ zip_suffix = ""
    /\ cwd = EmptyFs
    /\ zips = [x \in Suffixes |-> NoFile]
    /\ hashes = [x \in Suffixes |-> NoFile]
    /\ RunIdle
    /\ first = NotReturned
    /\ second = NotReturned
    /\ decision = "none"
    /\ exitCode = -1
    /\ printed = NothingPrinted

\* The program starts in a directory that is empty or holds what an earlier
\* invocation left: ./maps, and the three archives with their hash files.
Init ==
    /\ pc = "cleanup"
    /\ zip_suffix = ""
    /\ cwd \in {EmptyFs, StaleFs}
    /\ \E stale \in BOOLEAN :
         /\ zips = [x \in Suffixes |-> IF stale THEN FileOf(StaleEntries) ELSE NoFile]
         /\ hashes = [x \in Suffixes |->
                        IF stale THEN FileOf(CalculateFileHash(FileOf(StaleEntries))) ELSE NoFile]
    /\ RunIdle
    /\ first = NotReturned
    /\ second = NotReturned
    /\ decision = "none"
    /\ exitCode = -1
    /\ printed = NothingPrinted

\* main, line 249: cleanup_resources()
Cleanup ==
    /\ pc = "cleanup"
    /\ \E rmtreeFails \in BOOLEAN, removeFails \in SUBSET {"zip", "hash"} :
         LET c == CleanupResources([fs |-> cwd, zips |-> zips, hashes |-> hashes],
                                   FALSE, rmtreeFails, removeFails)
         IN  /\ cwd' = c.fs
             /\ zips' = c.zips
             /\ hashes' = c.hashes
    /\ pc' = "setup"
    /\ zip_suffix' = "_first"
    /\ UNCHANGED <<runVars, first, second, decision, exitCode, printed, packVars, extractVars>>

\* Return that starts the pass over instead of going back to main.
ReturnAgain(r) ==
    /\ pc' = "setup"
    /\ IF zip_suffix = "_first"
       THEN first' = r /\ UNCHANGED second
       ELSE second' = r /\ UNCHANGED first

\* run_crawl returns r to main.
Return(r) ==
    /\ pc' = "returned"
    /\ IF zip_suffix = "_first"
       THEN first' = r /\ UNCHANGED second
       ELSE second' = r /\ UNCHANGED first

\* run_crawl, lines 104-147: the driver is set up, or run_crawl returns
\* (True, None, None); then ./maps is made and the locals are initialised.
Setup ==
    /\ pc = "setup"
    /\ \E driverOk \in BOOLEAN :
         IF driverOk
         THEN /\ cwd' = Makedirs(cwd, MapsDir).fs
              /\ pc' = "catalog"
              /\ UNCHANGED <<first, second>>
         ELSE /\ Return(Returned(TRUE, None, "None"))
              /\ UNCHANGED cwd
    /\ UNCHANGED <<zip_suffix, zips, hashes, runVars, decision, exitCode, printed, packVars, extractVars>>

\* run_crawl, lines 149-172 and 219-223: the catalog is read, or reading it
\* raises and the outer except records the failure of the whole crawl.
Catalog(catalogs) ==
    /\ pc = "catalog"
    /\ \/ \E cat \in catalogs :
            /\ maps_data' = cat
            /\ total_maps' = Len(cat)
            /\ pc' = IF cat = <<>> THEN "pack" ELSE "item"
            /\ UNCHANGED <<map_status, has_error>>
       \/ /\ map_status' = DictSet(map_status, GLOBAL_KEY, <<CRAWL_ERROR, "NoMapData">>)
          /\ has_error' = TRUE
          /\ pc' = "pack"
          /\ UNCHANGED <<maps_data, total_maps>>
    /\ UNCHANGED <<zip_suffix, cwd, zips, hashes, idx, zip_result, last_ev, first, second,
                   decision, exitCode, printed, packVars, extractVars>>

\* run_crawl, lines 177-207: the try block for one map.  Returns whether it
\* ended without exception, the message of the exception, and the filesystem.
ProcessItem(f, map_name, ev) ==
    LET temp_zip_path == JoinStr(MapsDir, map_name \o <<DOT, "zip">>)
        map_target_dir == JoinStr(MapsDir, map_name)
        Download ==
            Bind(OpenWrite(f, temp_zip_path, BodyBytes(ev.body)),
                 LAMBDA w :
                    IF ~w.ok THEN [ok |-> FALSE, msg |-> <<"OSError">>, fs |-> f]
                    ELSE Bind(ExtractZipFlat(w.fs, ParseZip(ev.body), map_target_dir),
                              LAMBDA x :
                                 IF x.ok
                                 THEN [ok |-> TRUE, msg |-> <<>>,
                                       fs |-> RemoveFile(x.fs, temp_zip_path)]
                                 ELSE [ok |-> FALSE, msg |-> EXTRACT_FAILED, fs |-> x.fs]))
    IN  CASE ev.kind = "timeout" -> [ok |-> FALSE, msg |-> <<"Message">>, fs |-> f]
          [] ev.kind = "nohref" -> [ok |-> FALSE, msg |-> <<LINK_EMPTY>>, fs |-> f]
          [] ev.kind = "neterr" -> [ok |-> FALSE, msg |-> <<"ConnErr">>, fs |-> f]
          [] ev.kind = "neterr404" -> [ok |-> FALSE, msg |-> <<"ConnErr", "404">>, fs |-> f]
          [] ev.kind = "status" /\ ev.code # "200" ->
                [ok |-> FALSE, msg |-> <<ZIP_MSG, ev.code>>, fs |-> f]
          [] OTHER -> Download

\* run_crawl, lines 173-221: one pass of the for loop.  Reading the name and
\* url fields (lines 174-175) is outside the inner try: a missing field raises
\* KeyError to the outer except, which ends the loop.
Item(events) ==
    /\ pc = "item"
    /\ LET map_info == maps_data[idx]
       IN  IF map_info.fields # "name+url"
           THEN /\ map_status' = DictSet(map_status, GLOBAL_KEY, <<CRAWL_ERROR, "KeyError">>)
                /\ has_error' = TRUE
                /\ pc' = "pack"
                /\ last_ev' = NoEvent
                /\ UNCHANGED <<cwd, idx>>
           ELSE \E ev \in events :
                  \E r \in {ProcessItem(cwd, map_info.name, ev)} :
                      /\ cwd' = r.fs
                      /\ map_status' = DictSet(map_status, map_info.name,
                                               IF r.ok THEN OK_STATUS ELSE ItemErrorStatus(r.msg))
                      /\ has_error' = (has_error \/ ~r.ok)
                      /\ idx' = idx + 1
                      /\ last_ev' = ev
                      /\ pc' = IF idx = Len(maps_data) THEN "pack" ELSE "item"
    /\ UNCHANGED <<zip_suffix, zips, hashes, maps_data, total_maps, zip_result, first, second,
                   decision, exitCode, printed, packVars, extractVars>>

\* The time the files of a pass were written.
PassTime == IF zip_suffix = "_first" THEN 1 ELSE 2

\* run_crawl, lines 226-229: zip_folder(download_dir, zip_path).
Pack ==
    /\ pc = "pack"
    /\ \E files \in {Under(cwd, MapsDir)} :
         \E scan \in Scans(files), failAt \in -1..Cardinality(DOMAIN files) :
           \E r \in {ZipFolder(files, scan, [p \in DOMAIN files |-> PassTime], failAt,
                               zips[zip_suffix])} :
                 /\ zips' = [zips EXCEPT ![zip_suffix] = r.zip]
                 /\ zip_result' = IF r.ok THEN "true" ELSE "false"
                 /\ map_status' = IF r.ok THEN map_status
                                  ELSE DictSet(map_status, PACK_KEY,
                                               <<"r6maps", zip_suffix, PACK_FAILED>>)
                 /\ has_error' = (has_error \/ ~r.ok)
    /\ pc' = "hash"
    /\ UNCHANGED <<zip_suffix, cwd, hashes, maps_data, idx, total_maps, last_ev, first, second,
                   decision, exitCode, printed, packVars, extractVars>>

\* run_crawl, lines 237-241: the hash of the file at zip_path, if there is one.
FileHashOf(z, suffix) == IF z[suffix] # NoFile THEN CalculateFileHash(z[suffix]) ELSE None

\* run_crawl, lines 232-244: the report is printed, the hash computed and
\* written to ./hash<suffix>.txt, and run_crawl returns.
HashReturn ==
    /\ pc = "hash"
    /\ LET file_hash == FileHashOf(zips, zip_suffix)
       IN  /\ hashes' = IF file_hash # None
                        THEN [hashes EXCEPT ![zip_suffix] = FileOf(file_hash)] ELSE hashes
           /\ Return(Returned(has_error, file_hash, zip_suffix))
    /\ printed' = [printed EXCEPT ![zip_suffix] = [total |-> total_maps, report |-> map_status]]
    /\ UNCHANGED <<zip_suffix, cwd, zips, runVars, decision, exitCode, packVars, extractVars>>

\* The locals of run_crawl are gone once main goes on.
RunReset ==
    /\ maps_data' = <<>>
    /\ idx' = 1
    /\ map_status' = <<>>
    /\ has_error' = FALSE
    /\ total_maps' = 0
    /\ zip_result' = "none"
    /\ last_ev' = NoEvent

\* Publish without the copy of the hash file.
PublishArchiveOnly(first_zip) ==
    /\ zips' = [zips EXCEPT ![""] = zips[first_zip]]
    /\ UNCHANGED hashes

\* main, lines 259-262 and 283-286: the first pass's archive and hash file are
\* copied to ./r6maps.zip and ./hash.txt.
Publish(first_zip) ==
    /\ zips' = [zips EXCEPT ![""] = zips[first_zip]]
    /\ hashes' = [hashes EXCEPT ![""] = hashes["_first"]]

\* CleanFirstPass with the condition inverted.
CleanFirstPassInverted(first_error) == first_error

\* main, line 256: if not first_error
CleanFirstPass(first_error) == ~first_error

\* main, lines 256-267: after the first pass.  Without error the result is
\* published and the program exits with 0; with an error cleanup_resources
\* (keep_first_zip=True) runs and the second pass starts.
AfterFirst ==
    /\ pc = "returned"
    /\ zip_suffix = "_first"
    /\ IF CleanFirstPass(first.error)
       THEN /\ IF first.zip \in Suffixes /\ zips[first.zip] # NoFile THEN Publish(first.zip) ELSE UNCHANGED <<zips, hashes>>
            /\ decision' = "ACCEPTED"
            /\ exitCode' = 0
            /\ pc' = "exit"
            /\ UNCHANGED <<zip_suffix, cwd>>
       ELSE /\ \E rmtreeFails \in BOOLEAN :
                 LET c == CleanupResources([fs |-> cwd, zips |-> zips, hashes |-> hashes],
                                           TRUE, rmtreeFails, {})
                 IN  /\ cwd' = c.fs
                     /\ zips' = c.zips
                     /\ hashes' = c.hashes
            /\ pc' = "setup"
            /\ zip_suffix' = "_second"
            /\ UNCHANGED <<decision, exitCode>>
    /\ RunReset
    /\ UNCHANGED <<first, second, printed, packVars, extractVars>>

\* HashesAgree with the comparison inverted.
HashesAgreeInverted(first_hash, second_hash) ==
    first_hash # None /\ second_hash # None /\ first_hash # second_hash

\* HashesAgree that also accepts when the second pass had no error.
HashesAgreeOrClean(first_hash, second_hash) ==
    first_hash # None /\ second_hash # None /\ (first_hash = second_hash \/ ~second.error)

\* main, line 280: first_hash and second_hash and first_hash == second_hash
HashesAgree(first_hash, second_hash) ==
    first_hash # None /\ second_hash # None /\ first_hash = second_hash

\* ExitCodeFor without the failure exit.
ExitCodeAlwaysZero(agree) == 0

\* main, lines 287 and 290: the argument of sys.exit.
ExitCodeFor(agree) == IF agree THEN 0 ELSE 1

\* main, lines 275-290: after the second pass the two hashes are compared.
Compare ==
    /\ pc = "returned"
    /\ zip_suffix = "_second"
    /\ LET agree == HashesAgree(first.hash, second.hash)
       IN  /\ IF agree THEN Publish(first.zip) ELSE UNCHANGED <<zips, hashes>>
           /\ decision' = IF agree THEN "ACCEPTED" ELSE "REJECTED"
           /\ exitCode' = ExitCodeFor(agree)
    /\ pc' = "exit"
    /\ RunReset
    /\ UNCHANGED <<zip_suffix, cwd, first, second, printed, packVars, extractVars>>

\* main, from start to exit.
Next ==
    \/ Cleanup
    \/ Setup
    \/ Catalog(MainCatalogs)
    \/ Item(MainEvents)
    \/ Pack
    \/ HashReturn
    \/ AfterFirst
    \/ Compare

\* main up to the return of run_crawl("_first").
RunNext ==
    \/ Cleanup
    \/ Setup
    \/ Catalog(Catalogs)
    \/ Item(Events)
    \/ Pack
    \/ HashReturn

\* --------------------------------------------------------- specifications
\* The initial states of each specification: the part under study starts from
\* its inputs and the other parts stay idle.
MainInit == Init /\ PackIdle /\ ExtractIdle

PackOnlyInit == PackInit /\ ExtractIdle /\ MainIdle

ExtractOnlyInit == ExtractInit /\ PackIdle /\ MainIdle

Spec == MainInit /\ [][Next]_vars

SpecRun == MainInit /\ [][RunNext]_vars

\* main is one sequential process: as long as it has not exited, its next
\* statement is executed.
SpecLive == MainInit /\ [][Next]_vars /\ WF_vars(Next)

SpecPack == PackOnlyInit /\ [][PackNext]_vars

SpecExtract == ExtractOnlyInit /\ [][ExtractNext]_vars

\* ------------------------------------------------------------------ claims

\* C1: two calls of zip_folder on the same (relative path, content) pairs that
\* both succeed produce the same archive (entries with name, content and
\* timestamp, in the same order), whatever order the filesystem lists files and
\* subdirectories in and whenever the files were written.
C1_SameContentSameArchive ==
    (zipA.ran /\ zipB.ran /\ zipA.ok /\ zipB.ok) => zipA.zip = zipB.zip

\* C10: after extract_zip_flat, every file of the filesystem is either a file
\* that was there before the call, unchanged, and outside the target directory,
\* or lies directly in the target directory under the basename of an entry of
\* the archive; nothing else is created or written.
InTarget(p) == Len(p) = Len(Resolve(TargetDir)) + 1 /\ IsPrefix(Resolve(TargetDir), p)

BothHashesEqual ==
    first.done /\ second.done /\ first.hash # None /\ second.hash # None
      /\ first.hash = second.hash

\* C2: when the first pass had an error and both passes returned the same
\* defined fingerprint, main ends ACCEPTED with exit code 0, ./r6maps.zip holds
\* the first pass's archive (its hash is the fingerprint the first pass
\* returned) and ./hash.txt holds that fingerprint.
C2_EqualHashesAccepted ==
    (pc = "exit" /\ first.error /\ BothHashesEqual) =>
        /\ decision = "ACCEPTED"
        /\ exitCode = 0
        /\ zips[""] = zips["_first"]
        /\ zips[""] # NoFile
        /\ CalculateFileHash(zips[""]) = first.hash
        /\ hashes[""] = FileOf(first.hash)

\* C2's case: both passes ran, the first with an error, their fingerprints are
\* equal, and main has exited after publishing.
C2_Witness ==
    /\ pc = "exit"
    /\ first.error
    /\ BothHashesEqual
    /\ decision = "ACCEPTED"
    /\ zips[""] = zips["_first"]

\* C3: after a second pass whose fingerprint differs from the first's, or with
\* one of the two fingerprints undefined, main ends REJECTED with a nonzero exit
\* code; and every step that writes ./r6maps.zip or ./hash.txt is the step that
\* decides ACCEPTED, so no run that ends REJECTED has written them.
C3_RejectedWritesNothing ==
    /\ []((pc = "exit" /\ second.done /\ ~BothHashesEqual) =>
             (decision = "REJECTED" /\ exitCode # 0))
    /\ [][((zips'[""] # zips[""] /\ zips'[""] # NoFile)
            \/ (hashes'[""] # hashes[""] /\ hashes'[""] # NoFile))
           => (decision = "none" /\ decision' = "ACCEPTED")]_vars
    /\ [][decision # "none" => decision' = decision]_vars

\* C3's case: the two passes returned different defined fingerprints and main
\* has exited REJECTED.
C3_Witness ==
    /\ pc = "exit"
    /\ second.done
    /\ first.hash # None
    /\ second.hash # None
    /\ first.hash # second.hash
    /\ decision = "REJECTED"

\* C4: when run_crawl("_first") returned has_error = False, the second pass
\* never starts, and main ends ACCEPTED with exit code 0, with the first pass's
\* archive and fingerprint published.
C4_CleanFirstPassNoSecond ==
    (first.done /\ ~first.error) =>
        /\ zip_suffix = "_first"
        /\ ~second.done
        /\ pc \in {"returned", "exit"}
        /\ pc = "exit" =>
             /\ decision = "ACCEPTED"
             /\ exitCode = 0
             /\ zips[""] = zips["_first"]
             /\ zips[""] # NoFile
             /\ hashes[""] = FileOf(first.hash)

\* C4's case: the first pass returned without error and main has exited.
C4_Witness ==
    /\ pc = "exit"
    /\ first.done
    /\ ~first.error
    /\ first.hash # None
    /\ decision = "ACCEPTED"

\* run_crawl returns (True, None, None) exactly when the driver was not set up.
DriverFailed(r) == r.done /\ r.zip = "None"

\* C9: at exit the decision is ACCEPTED or REJECTED, the exit code is 0 exactly
\* when it is ACCEPTED, and it is not 0 when a pass failed at driver setup.
C9_ExitCode ==
    pc = "exit" =>
        /\ decision \in {"ACCEPTED", "REJECTED"}
        /\ (exitCode = 0) <=> (decision = "ACCEPTED")
        /\ (DriverFailed(first) \/ DriverFailed(second)) => exitCode # 0

\* C9's case: the first pass produced a fingerprint, the second failed at
\* driver setup, and main has exited.
C9_Witness ==
    /\ pc = "exit"
    /\ first.hash # None
    /\ DriverFailed(second)
    /\ exitCode = 1

\* The outcomes of the report that belong to maps.
ItemOutcomes(d) == SelectSeq(d, LAMBDA e : e.key \notin {GLOBAL_KEY, PACK_KEY})

\* C5: once the catalog was obtained and the item loop is over, no item after
\* a failed one was left unprocessed.
C5_LaterItemsProcessed ==
    pc \in {"pack", "hash", "returned"} => idx >= Len(maps_data)

\* C6: after the loop went through a catalog of N items, the report holds one
\* outcome per catalog item, in catalog order, and total_maps = N.
C6_OneOutcomePerItem ==
    (pc \in {"hash", "returned"} /\ idx = Len(maps_data) + 1) =>
        /\ total_maps = Len(maps_data)
        /\ Len(ItemOutcomes(map_status)) = Len(maps_data)
        /\ \A i \in 1..Len(maps_data) :
             i <= Len(ItemOutcomes(map_status))
               => ItemOutcomes(map_status)[i].key = maps_data[i].name

\* C7: the has_error that run_crawl returns is true exactly when an outcome of
\* the report is not OK or zip_folder failed.
C7_HasErrorIffReportOrPack ==
    pc = "returned" =>
        (first.error <=> ((\E i \in 1..Len(map_status) : map_status[i].value # OK_STATUS)
                            \/ zip_result = "false"))

\* C8: the fingerprint that run_crawl returns is defined exactly when the
\* zip_folder call of this run succeeded.
C8_HashIffPacked ==
    pc = "returned" => ((first.hash # None) <=> (zip_result = "true"))

\* One of the path components of the entry name is the junk directory.
JunkComponent(s) ==
    \E i \in 1..Len(SplitSlash(<<>>, s)) : SplitSlash(<<>>, s)[i] = <<JUNK>>

\* The entries the flattening keeps: no directory entry, no empty basename, not
\* under a junk directory.
Kept(e) == ~JunkComponent(e.filename) /\ ~IsDirEntry(e.filename) /\ Basename(e.filename) # <<>>

\* The last kept entry of the archive with the basename of entry i.
LastWithBasename(i) ==
    CHOOSE j \in 1..Len(xzip) :
        /\ Kept(xzip[j])
        /\ Basename(xzip[j].filename) = Basename(xzip[i].filename)
        /\ \A k \in (j + 1)..Len(xzip) :
             ~(Kept(xzip[k]) /\ Basename(xzip[k].filename) = Basename(xzip[i].filename))

\* C11: after a successful extract_zip_flat, for every entry that is no
\* directory entry, has a basename and has no junk directory among its path
\* components, the target directory holds a file under its basename with the
\* data of the last such entry of that basename; and every file of the target
\* directory that the call created or changed is one of these.
C11_FlatOnePerBasename ==
    xres = "true" =>
        /\ \A i \in 1..Len(xzip) :
             Kept(xzip[i]) =>
                LET p == Resolve(TargetDir) \o <<Basename(xzip[i].filename)>>
                IN  /\ p \in DOMAIN xfs.files
                    /\ xfs.files[p] = xzip[LastWithBasename(i)].data
        /\ \A p \in DOMAIN xfs.files :
             (InTarget(p) /\ (p \notin DOMAIN xfs0.files \/ xfs.files[p] # xfs0.files[p]))
                => \E i \in 1..Len(xzip) : Kept(xzip[i]) /\ p[Len(p)] = Basename(xzip[i].filename)

\* The status the report holds for the item handled last.
LastStatus ==
    LET name == maps_data[idx - 1].name
        i == CHOOSE k \in 1..Len(map_status) : map_status[k].key = name
    IN  map_status[i].value

\* The statuses that report a failed fetch: the fetch message with a status code.
IsFetchFailed(st) == Len(st) = 2 /\ st[1] = ZIP_MSG

\* C12: the status of the item handled last names the stage that failed: no
\* download button or an empty href gives the missing-link status; a status
\* code other than 200 gives the fetch status with that code; a failed request
\* gives its own message, which is neither the missing-link nor a fetch status;
\* a downloaded body gives OK or the message of the failed write or extraction.
C12_StatusNamesFailedStage ==
    (pc \in {"item", "pack"} /\ last_ev.kind # "none") =>
        CASE last_ev.kind \in {"timeout", "nohref"} -> LastStatus = LINK_404
          [] last_ev.kind = "status" -> LastStatus = <<ZIP_MSG, last_ev.code>>
          [] last_ev.kind \in {"neterr", "neterr404"} ->
                ~IsFetchFailed(LastStatus) /\ LastStatus # LINK_404 /\ LastStatus # OK_STATUS
          [] OTHER -> LastStatus \in {OK_STATUS, EXTRACT_FAILED, <<"OSError">>}

\* C13: in an archive that zip_folder produced, the entries are in ascending
\* order of their relative paths, compared as whole strings.
C13_EntriesAscending ==
    (zipA.ran /\ zipA.ok) =>
        LET entries == ContentOf(zipA.zip)
        IN  \A i \in 1..(Len(entries) - 1) :
              StrLess(entries[i].filename, entries[i + 1].filename)

\* C14: when a pass starts collecting (the driver is set up and ./maps made),
\* ./maps holds no file and no directory: nothing an earlier pass or an earlier
\* invocation left is in it.
C14_MapsEmptyAtPassStart ==
    pc = "catalog" =>
        /\ DOMAIN Under(cwd, MapsDir) = {}
        /\ \A q \in cwd.dirs : IsPrefix(Resolve(MapsDir), q) => q = Resolve(MapsDir)

\* C15: once the first pass has returned and until main exits, no step changes
\* ./r6maps_first.zip or ./hash_first.txt; and the archive published on
\* ACCEPTED has the fingerprint that the first pass returned.
C15_FirstArchiveKept ==
    /\ [][(first.done /\ pc # "exit") =>
             (zips'["_first"] = zips["_first"] /\ hashes'["_first"] = hashes["_first"])]_vars
    /\ []((pc = "exit" /\ decision = "ACCEPTED") =>
             (zips[""] # NoFile /\ CalculateFileHash(zips[""]) = first.hash))

\* C15's case: the second pass has packed and fingerprinted an archive that
\* differs from the first pass's, and the first pass's archive and hash file
\* still hold what the first pass returned.
C15_Witness ==
    /\ pc = "returned"
    /\ zip_suffix = "_second"
    /\ first.hash # None
    /\ second.hash # None
    /\ second.hash # first.hash
    /\ CalculateFileHash(zips["_first"]) = first.hash
    /\ hashes["_first"] = FileOf(first.hash)

\* The stages of main and of a pass, in program order.
PcRank(p) ==
    CASE p = "cleanup" -> 0
      [] p = "setup" -> 1
      [] p = "catalog" -> 2
      [] p = "item" -> 3
      [] p = "pack" -> 4
      [] p = "hash" -> 5
      [] p = "returned" -> 6
      [] p = "exit" -> 7

C17_DecisionByHashesOnly ==
    (pc = "exit" /\ second.done) =>
        /\ decision = IF BothHashesEqual THEN "ACCEPTED" ELSE "REJECTED"
        /\ ~BothHashesEqual =>
             /\ zips[""] \in {NoFile, FileOf(StaleEntries)}
             /\ hashes[""] \in {NoFile, FileOf(CalculateFileHash(FileOf(StaleEntries)))}
             /\ ~second.error => zips[""] # zips["_second"]

\* C17's case: the first pass had an error, the second pass had none and
\* returned another fingerprint, and main has exited.
C17_Witness ==
    /\ pc = "exit"
    /\ first.error
    /\ first.hash # None
    /\ second.done
    /\ ~second.error
    /\ second.hash # first.hash
    /\ decision = "REJECTED"

\* The pass with this suffix failed to obtain the catalog and did nothing else
\* wrong: it printed zero maps and a report with the global outcome only (so
\* no item was handled and zip_folder did not fail).
OnlyCatalogFailed(x) ==
    /\ printed[x].total = 0
    /\ printed[x].report = <<[key |-> GLOBAL_KEY, value |-> <<CRAWL_ERROR, "NoMapData">>]>>

\* C18: when both passes failed to obtain the catalog and packed successfully,
\* both archives have no entries, the fingerprints are equal, and main ends
\* ACCEPTED with exit code 0 and the empty archive as ./r6maps.zip.
C18_NoCatalogTwiceAccepted ==
    (pc = "exit" /\ OnlyCatalogFailed("_first") /\ OnlyCatalogFailed("_second")) =>
        /\ zips["_first"] = FileOf(<<>>)
        /\ zips["_second"] = FileOf(<<>>)
        /\ first.hash = second.hash
        /\ decision = "ACCEPTED"
        /\ exitCode = 0
        /\ zips[""] = FileOf(<<>>)

\* The archive names of the files an earlier invocation left in ./maps.
StaleNames == {JoinPath(q) : q \in DOMAIN Under(StaleFs, MapsDir)}

\* The entry lies in the directory of a map whose outcome in the report is OK.
UnderOkItem(filename) ==
    \E i \in 1..Len(map_status) :
        /\ map_status[i].value = OK_STATUS
        /\ Len(filename) > Len(map_status[i].key) + 1
        /\ SubSeq(filename, 1, Len(map_status[i].key) + 1) = map_status[i].key \o <<SLASH>>

\* C19: every entry of the archive that the pass packed lies in the directory
\* of an item whose outcome is OK (or was left in ./maps by an earlier
\* invocation): no temporary download <name>.zip and no file of an extraction
\* that failed part way is an entry.
C19_ArchiveOnlyOkItems ==
    (pc \in {"hash", "returned"} /\ zip_result = "true") =>
        \A k \in 1..Len(ContentOf(zips[zip_suffix])) :
            LET filename == ContentOf(zips[zip_suffix])[k].filename
            IN  filename \in StaleNames \/ UnderOkItem(filename)

====
